---- MODULE Spec2Model ----
(***************************************************************************)
(* Protomatter core (src/core.c): the lifecycle operations _PM_init,       *)
(* _PM_begin, _PM_stop, _PM_resume, _PM_free, _PM_getFrameCount, the timer *)
(* interrupt handler _PM_row_handler, and the HUB75 panel they drive.      *)
(*                                                                         *)
(* One foreground thread calls the lifecycle operations; the timer         *)
(* interrupt preempts it between any two of its statements and runs        *)
(* _PM_row_handler to completion.                                          *)
(***************************************************************************)
EXTENDS Integers, Sequences, FiniteSets

(* ------------------------------ bounds --------------------------------- *)
MaxWidth == 1
MaxPlanes == 2
MaxAddrLines == 1
MaxIsr == 5

(* ------------------- arch facade (arch.h, not in src/) ------------------ *)
PM_chunkSize == 2
PM_timerFreq == 1000
PM_minMinPeriod == 2
PM_MAX_REFRESH_HZ == 250

\* Pins are numbered so that pin \div 32 is the GPIO port and pin % 32 the
\* bit within the port's 32-bit registers.
PM_portOutRegister(pin) == pin \div 32
PM_portToggleRegister(pin) == pin \div 32
\* A 32-bit mask is the set of its one-bits.
PM_portBitMask(pin) == {pin % 32}
PM_byteOffset(pin) == (pin % 32) \div 8
PM_wordOffset(pin) == (pin % 32) \div 16

(* ----------------------------- inputs ---------------------------------- *)
\* One list on PORT 0, and one whose last pin is on PORT 1.
RgbLists == {<<0, 1, 2, 3, 4, 5>>, <<0, 1, 2, 3, 4, 37>>}
ClockPins == {12, 44}
AddrPins == <<16, 17, 18, 19, 20>>
\* Values _PM_timerStop can return for the interval that just expired.
Elapsed == {3, 4}

(* ----------------------------- helpers --------------------------------- *)
Pow2(n) == 2 ^ n
U8(x) == x % 256
U16(x) == x % 65536
\* uint32_t: every value of the model stays below 2^31, where the checker's
\* own integers end (it stops with an error beyond), so nothing wraps.
U32(x) == x
\* x >> k on a mask
Shr(mask, k) == {b - k : b \in {c \in mask : c >= k}}
\* bit `line` of the integer r
Bit(r, line) == (r \div Pow2(line)) % 2
\* the set of address lines that are 1 in r
RowBits(r, n) == {l \in 0 .. (n - 1) : Bit(r, l) = 1}

VARIABLES
    core,        \* the Protomatter_core struct
    build,       \* compile-time variant: [toggle |-> _PM_portToggleRegister defined,
                 \*                        strict32 |-> _PM_STRICT_32BIT_IO defined,
                 \*                        timerFreq |-> _PM_timerFreq]
    heap,        \* the allocator's view of the three blocks
    hw,          \* the panel: control lines, shift register, output latches
    timer,       \* [running, period, elapsed]; elapsed is the count
                 \* _PM_timerStop returns where the load keeps it constant,
                 \* 0 where it varies from one interrupt to the next
    fg,          \* the foreground thread: [pc, count]
    ret,         \* status returned by init and begin
    obs          \* what the run has observed so far (history)

vars == <<core, build, heap, hw, timer, fg, ret, obs>>

(* ------------------------- the panel (HUB75) --------------------------- *)
\* What one shift-register stage (or output latch) holds: unknown at
\* power-up, zeros, or the framebuffer element of (buf, row, plane, col).
StageX == [k |-> "x", buf |-> 0, row |-> 0, plane |-> 0, col |-> 0]
StageZero == [k |-> "zero", buf |-> 0, row |-> 0, plane |-> 0, col |-> 0]
StageData(b, r, p, c) == [k |-> "data", buf |-> b, row |-> r, plane |-> p, col |-> c]

\* A rising clock edge moves every stage one place on and takes the level
\* of the RGB lines into the first stage.
ShiftIn(sr, e) == IF Len(sr) = 0 THEN sr ELSE <<e>> \o SubSeq(sr, 1, Len(sr) - 1)

Ev(h, e) == [h EXCEPT !.log = Append(@, e)]
\* _PM_setReg(core->oe) / _PM_clearReg(core->oe)
OE_set(h) == Ev([h EXCEPT !.oe = 1], "OE_HIGH")
OE_clear(h) == Ev([h EXCEPT !.oe = 0], "OE_LOW")
\* _PM_setReg(core->latch): the rising edge copies the shift register into
\* the output drivers.  _PM_clearReg(core->latch) ends the pulse.
Latch_set(h) == Ev([h EXCEPT !.latch = 1, !.out = h.sr], "LATCH_HIGH")
Latch_clear(h) == Ev([h EXCEPT !.latch = 0], "LATCH_LOW")

(* ------------------------------ state ---------------------------------- *)
CoreBlank(garbage) ==
    [timer |-> FALSE, width |-> 0, numPlanes |-> 0, parallel |-> 0,
     numAddressLines |-> 0, clockPin |-> 0, doubleBuffer |-> FALSE,
     rgbPins |-> "unset", rgbList |-> <<>>, addr |-> "unset",
     screenData |-> "unset",
     bytesPerElement |-> 0, numRowPairs |-> 0, bufferSize |-> 0,
     portOffset |-> 0, clockMask |-> {}, rgbAndClockMask |-> {},
     rgbMask |-> <<>>, fill |-> [bytes |-> 0, value |-> {}],
     remap_rb |-> <<>>, remap_g |-> <<>>,
     minPeriod |-> 0, bitZeroPeriod |-> 0, activeBuffer |-> 0,
     regs |-> FALSE, singleAddrPort |-> FALSE,
     prevRow |-> 0, plane |-> 0, row |-> 0,
     swapBuffers |-> garbage, frameCount |-> 0]

HwBlank ==
    [oe |-> 1, latch |-> 0, clk |-> 0, rgb |-> 0, addr |-> {},
     sr |-> <<>>, out |-> <<>>, log |-> <<>>,
     port |-> {}, src |-> [offset |-> 0, elements |-> 0]]

ObsBlank ==
    [isr |-> 0, incs |-> 0, sum |-> 0, raced |-> FALSE,
     stopped |-> FALSE, fault |-> {}, drawing |-> -1]

\* The struct is not initialised before _PM_init: swapBuffers, which no
\* operation before _PM_resume assigns, holds whatever was in memory.
Init ==
    /\ \E garbage \in {0, 1} : core = CoreBlank(garbage)
    /\ \E t \in BOOLEAN : build = [toggle |-> t, strict32 |-> FALSE, timerFreq |-> PM_timerFreq]
    /\ heap = [rgbPins |-> "none", addr |-> "none", screenData |-> "none"]
    /\ hw = HwBlank
    /\ timer = [running |-> FALSE, period |-> 0, elapsed |-> 0]
    /\ fg = [pc |-> "idle", count |-> 0]
    /\ ret = [init |-> "none", begin |-> "none"]
    /\ obs = ObsBlank

Fault(o, f) == [o EXCEPT !.fault = @ \cup f]

(* ------------------------------ _PM_init -------------------------------- *)
\* (variant of InitError: the pin list stays allocated on the failure path)
InitError_leak(c, okRgb) ==
    /\ core' = [c EXCEPT !.rgbPins = IF okRgb THEN "ptr" ELSE "null"]
    /\ heap' = IF okRgb THEN [heap EXCEPT !.rgbPins = "live"] ELSE heap
    /\ ret' = [ret EXCEPT !.init = "ERR_MALLOC"]

\* The ERR_MALLOC return of _PM_init: rgbPins is NULL because its own
\* allocation failed (okRgb false), or it is freed and set to NULL because
\* the allocation of addr failed.
InitError(c, okRgb) ==
    /\ core' = [c EXCEPT !.rgbPins = "null"]
    /\ heap' = IF okRgb THEN [heap EXCEPT !.rgbPins = "freed"] ELSE heap
    /\ ret' = [ret EXCEPT !.init = "ERR_MALLOC"]

\* timerOk: a timer was passed, or _PM_TIMER_DEFAULT stands in for NULL.
\* okRgb, okAddr: whether the two _PM_ALLOCATOR calls succeed.
PM_init ==
    /\ fg.pc = "idle"
    /\ ret.init = "none"
    /\ \E bitWidth \in 1 .. MaxWidth, bitDepth \in 1 .. MaxPlanes,
          rgbList \in RgbLists, addrCountArg \in 0 .. MaxAddrLines,
          clockPin \in ClockPins, doubleBuffer \in BOOLEAN,
          timerOk \in BOOLEAN, okRgb \in BOOLEAN, okAddr \in BOOLEAN :
        LET rgbCount == IF Len(rgbList) \div 6 > 5 THEN 5 ELSE Len(rgbList) \div 6
            addrCount == IF addrCountArg > 5 THEN 5 ELSE addrCountArg
            c1 == [core EXCEPT !.timer = TRUE, !.width = bitWidth,
                               !.numPlanes = bitDepth, !.parallel = rgbCount,
                               !.numAddressLines = addrCount,
                               !.clockPin = clockPin,
                               !.doubleBuffer = doubleBuffer,
                               !.addr = "null", !.screenData = "null"]
        IN IF ~timerOk
           THEN /\ ret' = [ret EXCEPT !.init = "ERR_ARG"]
                /\ UNCHANGED <<core, heap, hw>>
           ELSE /\ hw' = [hw EXCEPT !.sr = [i \in 1 .. bitWidth |-> StageX],
                                    !.out = [i \in 1 .. bitWidth |-> StageX]]
                /\ IF okRgb /\ okAddr
                   THEN /\ core' = [c1 EXCEPT !.rgbPins = "ptr", !.addr = "ptr",
                                              !.rgbList = rgbList]
                        /\ heap' = [heap EXCEPT !.rgbPins = "live", !.addr = "live"]
                        /\ ret' = [ret EXCEPT !.init = "OK"]
                   ELSE InitError(c1, okRgb)
    /\ obs' = obs
    /\ UNCHANGED <<build, timer, fg>>

(* ------------------------------ _PM_resume ------------------------------ *)
\* (variant of Resume: the front buffer is reset as well)
Resume_resetBuffer(c) ==
    [c EXCEPT !.plane = U8(c.numPlanes - 1),
              !.row = U8(c.numRowPairs - 1),
              !.prevRow = IF c.numRowPairs > 1 THEN U8(U8(c.numRowPairs - 1) - 1) ELSE 1,
              !.swapBuffers = 0,
              !.frameCount = 0,
              !.activeBuffer = 0]

\* Cursor at its last position, so that the first interrupt rolls it over.
Resume(c) ==
    [c EXCEPT !.plane = U8(c.numPlanes - 1),
              !.row = U8(c.numRowPairs - 1),
              !.prevRow = IF c.numRowPairs > 1 THEN U8(U8(c.numRowPairs - 1) - 1) ELSE 1,
              !.swapBuffers = 0,
              !.frameCount = 0]

\* _PM_timerInit, _PM_timerStart(core->timer, 1000)
ResumeTimer == [running |-> TRUE, period |-> 1000, elapsed |-> 0]

ResumeObs(o) == [o EXCEPT !.isr = 0, !.incs = 0, !.sum = 0, !.raced = FALSE,
                          !.stopped = FALSE]

(* ------------------------------ _PM_begin ------------------------------- *)
RgbPinCount(c) == c.parallel * 6

\* (variant of PortMismatch: only the first pin is compared)
PortMismatch_firstPin(c) ==
    PM_portOutRegister(c.rgbList[1]) # PM_portOutRegister(c.clockPin)

\* Some RGB pin's PORT differs from the clock pin's.
PortMismatch(c) ==
    \E i \in 1 .. RgbPinCount(c) :
        PM_portOutRegister(c.rgbList[i]) # PM_portOutRegister(c.clockPin)

\* Union of the RGB pin masks, and of the clock's when data and clock are
\* written through one toggle register.
BitMask(c, toggle) ==
    (IF toggle THEN PM_portBitMask(c.clockPin) ELSE {})
        \cup UNION {PM_portBitMask(c.rgbList[i]) : i \in 1 .. RgbPinCount(c)}

\* The set of octets of the PORT (0 = low byte) that hold a bit of the mask.
ByteMask(bitMask) == {b \div 8 : b \in bitMask}

\* (variant of BytesPerElement: the middle half-word taken as 16-bit too)
BytesPerElement_unaligned(byteMask) ==
    IF byteMask \in {{0}, {1}, {2}, {3}} THEN 1
    ELSE IF byteMask \in {{0, 1}, {1, 2}, {2, 3}} THEN 2
    ELSE 4

BytesPerElement(byteMask) ==
    IF byteMask \in {{0}, {1}, {2}, {3}} THEN 1
    ELSE IF byteMask \in {{0, 1}, {2, 3}} THEN 2
    ELSE 4

NumRowPairs(numAddressLines) == Pow2(numAddressLines)
Chunks(width) == U8((width + (PM_chunkSize - 1)) \div PM_chunkSize)
Columns(width) == U16(Chunks(width) * PM_chunkSize)
ScreenBytes(c, bpe) ==
    U32(Columns(c.width) * NumRowPairs(c.numAddressLines) * c.numPlanes * bpe)

MinPeriod(c, numRowPairs) ==
    LET minPeriodPerFrame == build.timerFreq \div PM_MAX_REFRESH_HZ
        minPeriodPerLine == minPeriodPerFrame \div numRowPairs
        m == minPeriodPerLine \div (Pow2(c.numPlanes) - 1)
    IN IF m < PM_minMinPeriod THEN PM_minMinPeriod ELSE m

\* (uintN_t)mask: the bits of the mask below bit n.
Trunc(mask, n) == {b \in mask : b < n}

\* The framebuffer after a fill: the first `bytes` bytes hold elements of
\* the value `value`; the bytes after them hold what the allocator left.
Filled(bytes, value) == [bytes |-> bytes, value |-> value]

\* Clock mask, RGB-and-clock mask, the per-pin masks and the initial
\* contents of the framebuffer, by element size and build variant.
\* screenBytes counts both buffers when double-buffered.
BeginMasks(c, bitMask, screenBytes, b) ==
    LET clk == PM_portBitMask(c.clockPin)
        narrow == b.toggle /\ ~b.strict32
        \* memset(core->screenData, 0, screenBytes) without a toggle register
        cleared == IF b.toggle THEN Filled(0, {}) ELSE Filled(screenBytes, {})
    IN IF c.bytesPerElement = 1
       THEN LET po == PM_byteOffset(c.rgbList[1])
                cm == IF narrow THEN Shr(clk, po * 8) ELSE clk
            IN [c EXCEPT
                  !.portOffset = po,
                  !.clockMask = cm,
                  !.rgbAndClockMask =
                      IF narrow THEN Shr(bitMask, po * 8) \cup cm ELSE bitMask \cup cm,
                  !.fill = IF narrow THEN Filled(screenBytes, Trunc(cm, 8)) ELSE cleared,
                  !.rgbMask = [i \in 1 .. RgbPinCount(c) |->
                                 Trunc(Shr(PM_portBitMask(c.rgbList[i]), po * 8), 8)]]
       ELSE IF c.bytesPerElement = 2
       THEN LET po == PM_wordOffset(c.rgbList[1])
                cm == IF narrow THEN Shr(clk, po * 16) ELSE clk
                elements == screenBytes \div 2
            IN [c EXCEPT
                  !.portOffset = po,
                  !.clockMask = cm,
                  !.rgbAndClockMask =
                      IF narrow THEN Shr(bitMask, po * 16) \cup cm ELSE bitMask \cup cm,
                  !.fill = IF narrow THEN Filled(elements * 2, Trunc(cm, 16))
                           ELSE IF b.toggle
                           THEN Filled(elements * 2, Trunc(Shr(cm, po * 16), 16))
                           ELSE cleared,
                  !.rgbMask = [i \in 1 .. RgbPinCount(c) |->
                                 Trunc(Shr(PM_portBitMask(c.rgbList[i]), po * 16), 16)]]
       ELSE LET elements == screenBytes \div 4
            IN [c EXCEPT
                  !.portOffset = 0,
                  !.clockMask = clk,
                  !.rgbAndClockMask = bitMask \cup clk,
                  !.fill = IF b.toggle THEN Filled(elements * 4, clk) ELSE cleared,
                  !.rgbMask = [i \in 1 .. RgbPinCount(c) |->
                                 PM_portBitMask(c.rgbList[i])]]

\* remap_rb[i], remap_g[i] for the 5-bit and 6-bit inputs i (tables are
\* indexed from 1 here: entry i + 1).  Above 6 planes the tables are
\* gamma curves computed in floating point; the model keeps numPlanes at 6
\* or below and has no table for more.
\* (variant of Remap_rb: 5 bits expanded to 6 by the shift alone)
Remap_rb_shiftOnly(numPlanes) ==
    IF numPlanes < 6
    THEN [k \in 1 .. 32 |-> (k - 1) \div Pow2(U8(5 - numPlanes))]
    ELSE IF numPlanes = 6
    THEN [k \in 1 .. 32 |-> (k - 1) * 2]
    ELSE <<>>

Remap_rb(numPlanes) ==
    IF numPlanes < 6
    THEN [k \in 1 .. 32 |-> (k - 1) \div Pow2(U8(5 - numPlanes))]
    ELSE IF numPlanes = 6
    THEN [k \in 1 .. 32 |-> ((k - 1) * 2) + ((k - 1) \div 16)]
    ELSE <<>>

Remap_g(numPlanes) ==
    IF numPlanes < 6
    THEN [k \in 1 .. 64 |-> (k - 1) \div Pow2(U8(6 - numPlanes))]
    ELSE IF numPlanes = 6
    THEN [k \in 1 .. 64 |-> k - 1]
    ELSE <<>>

BeginRemap(c) ==
    [c EXCEPT !.remap_rb = Remap_rb(c.numPlanes), !.remap_g = Remap_g(c.numPlanes)]

\* All address pins share the toggle register of address pin 0.
SingleAddrPort(c) ==
    \A line \in 1 .. c.numAddressLines :
        PM_portToggleRegister(AddrPins[line]) = PM_portToggleRegister(AddrPins[1])

\* The fields _PM_begin assigns once the framebuffer is allocated, up to
\* the call of _PM_resume.
BeginFields(c, bpe) ==
    [c EXCEPT !.screenData = "ptr",
              !.minPeriod = MinPeriod(c, NumRowPairs(c.numAddressLines)),
              !.bitZeroPeriod = U32(c.width * 5),
              !.activeBuffer = 0,
              !.regs = TRUE,
              !.singleAddrPort = build.toggle /\ SingleAddrPort(c),
              !.prevRow = U8(Pow2(c.numAddressLines) - 2)]

\* Pins made outputs: clock and latch low, OE high, RGB low, address lines
\* showing prevRow.
BeginPins(h, c) ==
    [h EXCEPT !.clk = 0, !.latch = 0, !.oe = 1, !.rgb = 0,
              !.addr = RowBits(U8(Pow2(c.numAddressLines) - 2), c.numAddressLines),
              !.log = <<>>]

\* An error return of _PM_begin: the status goes back to the caller and the
\* core is left as it is at that point; nothing is released.
BeginError_rollback(status, c) ==
    /\ ret' = [ret EXCEPT !.begin = status]
    /\ core' = [c EXCEPT !.rgbPins = "null", !.addr = "null"]
    /\ heap' = [heap EXCEPT !.rgbPins = "freed", !.addr = "freed"]
    /\ UNCHANGED <<hw, timer>>

BeginError(status, c) ==
    /\ ret' = [ret EXCEPT !.begin = status]
    /\ core' = c
    /\ UNCHANGED <<heap, hw, timer>>

\* The core once the layout is planned (up to the allocation), and once
\* _PM_begin has run to its end.
BeginPlan(c, toggle) ==
    LET bpe == BytesPerElement(ByteMask(BitMask(c, toggle)))
    IN [c EXCEPT !.bytesPerElement = bpe,
                 !.numRowPairs = NumRowPairs(c.numAddressLines),
                 !.bufferSize = ScreenBytes(c, bpe)]

BeginCore(c, b) ==
    LET c1 == BeginPlan(c, b.toggle)
        screenBytes == IF c.doubleBuffer THEN U32(c1.bufferSize * 2)
                       ELSE c1.bufferSize
        c2 == BeginRemap(BeginMasks(c1, BitMask(c, b.toggle), screenBytes, b))
    IN Resume(BeginFields(c2, c1.bytesPerElement))

\* okScreen: whether the framebuffer allocation succeeds.
PM_begin ==
    /\ fg.pc = "idle"
    /\ ret.init \in {"OK", "ERR_MALLOC"}
    /\ ret.begin = "none"
    /\ \E okScreen \in BOOLEAN :
        IF core.rgbPins = "null"
        THEN BeginError("ERR_MALLOC", core)
        ELSE IF PortMismatch(core)
        THEN BeginError("ERR_PINS", core)
        ELSE LET c1 == BeginPlan(core, build.toggle)
             IN IF ~okScreen
                THEN BeginError("ERR_MALLOC", [c1 EXCEPT !.screenData = "null"])
                ELSE /\ core' = BeginCore(core, build)
                     /\ heap' = [heap EXCEPT !.screenData = "live"]
                     /\ hw' = BeginPins(hw, c1)
                     /\ timer' = ResumeTimer
                     /\ ret' = [ret EXCEPT !.begin = "OK"]
    /\ obs' = IF ret'.begin = "OK" THEN ResumeObs(obs) ELSE obs
    /\ UNCHANGED <<build, fg>>

(* --------------------------- _PM_row_handler ---------------------------- *)
\* (variant of PeriodUpdate: the filter rounds up)
PeriodUpdate_roundUp(c, prevPlane, elapsed) ==
    IF prevPlane = 1 \/ c.numPlanes = 1
    THEN LET b == U32(U32(U32(c.bitZeroPeriod * 7) + elapsed) + 7) \div 8
         IN [c EXCEPT !.bitZeroPeriod = IF b < c.minPeriod THEN c.minPeriod ELSE b]
    ELSE c

\* (variant of PeriodUpdate: measured when plane 0 was the one loaded)
PeriodUpdate_plane0(c, prevPlane, elapsed) ==
    IF prevPlane = 0 \/ c.numPlanes = 1
    THEN LET b == U32(U32(c.bitZeroPeriod * 7) + elapsed) \div 8
         IN [c EXCEPT !.bitZeroPeriod = IF b < c.minPeriod THEN c.minPeriod ELSE b]
    ELSE c

\* Filtered estimate of the plane-0 interval, floored at minPeriod.
PeriodUpdate(c, prevPlane, elapsed) ==
    IF prevPlane = 1 \/ c.numPlanes = 1
    THEN LET b == U32(U32(c.bitZeroPeriod * 7) + elapsed) \div 8
         IN [c EXCEPT !.bitZeroPeriod = IF b < c.minPeriod THEN c.minPeriod ELSE b]
    ELSE c

SymDiff(a, b) == (a \ b) \cup (b \ a)

\* (variant of AddrToggle: the mask of the new row alone goes to the toggle
\* register)
AddrToggle_newBits(h, c) ==
    LET newBits == RowBits(c.row, c.numAddressLines)
    IN Ev([h EXCEPT !.addr = SymDiff(h.addr, newBits)], "ADDR")

\* One write of newBits ^ priorBits to the address PORT's toggle register.
AddrToggle(h, c) ==
    LET newBits == RowBits(c.row, c.numAddressLines)
        priorBits == RowBits(c.prevRow, c.numAddressLines)
    IN Ev([h EXCEPT !.addr = SymDiff(h.addr, SymDiff(newBits, priorBits))], "ADDR")

\* Each address line whose bit differs between row and prevRow is set or
\* cleared.
AddrPerLine(h, c) ==
    LET d == {l \in 0 .. (c.numAddressLines - 1) : Bit(c.row, l) # Bit(c.prevRow, l)}
    IN IF d = {} THEN h
       ELSE Ev([h EXCEPT !.addr = (h.addr \ d) \cup {l \in d : Bit(c.row, l) = 1}], "ADDR")

AddrUpdate(h, c) == IF c.singleAddrPort THEN AddrToggle(h, c) ELSE AddrPerLine(h, c)

\* (variants of Advance: the roll-over test off by one; the swap not
\* acknowledged; the flag cleared without the switch)
Advance_offByOne(c) ==
    LET p1 == U8(c.plane + 1)
        r1 == U8(c.row + 1)
    IN IF p1 > c.numPlanes
       THEN IF r1 >= c.numRowPairs
            THEN [c EXCEPT !.plane = 0, !.row = 0, !.frameCount = U32(c.frameCount + 1)]
            ELSE [c EXCEPT !.plane = 0, !.row = r1]
       ELSE [c EXCEPT !.plane = p1]

Advance_noAck(c) ==
    LET p1 == U8(c.plane + 1)
        r1 == U8(c.row + 1)
    IN IF p1 >= c.numPlanes
       THEN IF r1 >= c.numRowPairs
            THEN [c EXCEPT !.plane = 0, !.row = 0,
                           !.activeBuffer = IF c.swapBuffers # 0 THEN 1 - @ ELSE @,
                           !.frameCount = U32(c.frameCount + 1)]
            ELSE [c EXCEPT !.plane = 0, !.row = r1]
       ELSE [c EXCEPT !.plane = p1]

Advance_noSwitch(c) ==
    LET p1 == U8(c.plane + 1)
        r1 == U8(c.row + 1)
    IN IF p1 >= c.numPlanes
       THEN IF r1 >= c.numRowPairs
            THEN [c EXCEPT !.plane = 0, !.row = 0, !.swapBuffers = 0,
                           !.frameCount = U32(c.frameCount + 1)]
            ELSE [c EXCEPT !.plane = 0, !.row = r1]
       ELSE [c EXCEPT !.plane = p1]

\* (variants of Advance: the buffers switch at every roll-over of row; the
\* frame is counted only when the buffers switch)
Advance_flipAlways(c) ==
    LET p1 == U8(c.plane + 1)
        r1 == U8(c.row + 1)
    IN IF p1 >= c.numPlanes
       THEN IF r1 >= c.numRowPairs
            THEN [c EXCEPT !.plane = 0, !.row = 0,
                           !.activeBuffer = 1 - c.activeBuffer,
                           !.swapBuffers = 0,
                           !.frameCount = U32(c.frameCount + 1)]
            ELSE [c EXCEPT !.plane = 0, !.row = r1]
       ELSE [c EXCEPT !.plane = p1]

Advance_countOnSwap(c) ==
    LET p1 == U8(c.plane + 1)
        r1 == U8(c.row + 1)
    IN IF p1 >= c.numPlanes
       THEN IF r1 >= c.numRowPairs
            THEN IF c.swapBuffers # 0
                 THEN [c EXCEPT !.plane = 0, !.row = 0,
                                !.activeBuffer = 1 - c.activeBuffer,
                                !.swapBuffers = 0,
                                !.frameCount = U32(c.frameCount + 1)]
                 ELSE [c EXCEPT !.plane = 0, !.row = 0]
            ELSE [c EXCEPT !.plane = 0, !.row = r1]
       ELSE [c EXCEPT !.plane = p1]

\* Advance bitplane index and/or row; at the roll-over of row, switch
\* buffers if due and count the frame.
Advance(c) ==
    LET p1 == U8(c.plane + 1)
        r1 == U8(c.row + 1)
    IN IF p1 >= c.numPlanes
       THEN IF r1 >= c.numRowPairs
            THEN LET c2 == [c EXCEPT !.plane = 0, !.row = 0]
                     c3 == IF c2.swapBuffers # 0
                           THEN [c2 EXCEPT !.activeBuffer = 1 - c2.activeBuffer,
                                           !.swapBuffers = 0]
                           ELSE c2
                 IN [c3 EXCEPT !.frameCount = U32(c3.frameCount + 1)]
            ELSE [c EXCEPT !.plane = 0, !.row = r1]
       ELSE [c EXCEPT !.plane = p1]

\* Whether the advance from c rolls row over to 0 (a frame boundary).
Wraps(c) == U8(c.plane + 1) >= c.numPlanes /\ U8(c.row + 1) >= c.numRowPairs

ElementsPerLine(c) == PM_chunkSize * ((c.width + (PM_chunkSize - 1)) \div PM_chunkSize)

SrcOffset(c) ==
    LET o == U32(U32(ElementsPerLine(c) * (c.numPlanes * c.row + c.plane))
                     * c.bytesPerElement)
    IN IF c.doubleBuffer THEN U32(o + U32(c.bufferSize * c.activeBuffer)) ELSE o

\* The buffer the source pointer lies in.
SrcBuffer(c) == IF c.doubleBuffer THEN c.activeBuffer ELSE 0

\* blast_byte / blast_word / blast_long: chunks * _PM_chunkSize elements of
\* the slice go out, one clock pulse each; RGB and clock are low on return.
RECURSIVE ShiftOut(_, _, _, _)
ShiftOut(sr, c, col, n) ==
    IF col >= n THEN sr
    ELSE ShiftOut(ShiftIn(sr, StageData(SrcBuffer(c), c.row, c.plane, col)), c, col + 1, n)

Blast(h, c) ==
    Ev([h EXCEPT !.sr = ShiftOut(h.sr, c, 0, Chunks(c.width) * PM_chunkSize),
                 !.src = [offset |-> SrcOffset(c),
                          elements |-> Chunks(c.width) * PM_chunkSize],
                 !.rgb = 0, !.clk = 0], "SHIFT")

\* (variant of RowHandlerHw: the address lines change after output is
\* enabled again)
RowHandlerHw_lateAddr(h, c0, c3) ==
    LET h1 == Latch_clear(Latch_set(Latch_clear(OE_set(h))))
        h3 == OE_clear(Ev(h1, "TIMER_START"))
        h4 == IF c0.plane = 0 THEN AddrUpdate(h3, c0) ELSE h3
    IN Blast(h4, c3)

\* The handler's writes to the panel, in program order.  c0 is the core on
\* entry (after the period update), c3 the core after the cursor advance.
RowHandlerHw(h, c0, c3) ==
    LET h1 == Latch_clear(Latch_set(Latch_clear(OE_set(h))))
        h2 == IF c0.plane = 0 THEN AddrUpdate(h1, c0) ELSE h1
        h3 == OE_clear(Ev(h2, "TIMER_START"))
    IN Blast(h3, c3)

\* The core fields after one invocation.
RowHandlerCore(c, elapsed) ==
    LET prevPlane == c.plane
        c1 == PeriodUpdate(c, prevPlane, elapsed)
        c2 == IF prevPlane = 0 THEN [c1 EXCEPT !.prevRow = c1.row] ELSE c1
    IN Advance(c2)

\* (variant of TimerArm: the interval of the plane being loaded)
TimerArm_newPlane(c3, prevPlane) ==
    [timer EXCEPT !.running = TRUE,
                  !.period = U32(c3.bitZeroPeriod * Pow2(c3.plane))]

\* _PM_timerStart(core->timer, core->bitZeroPeriod << prevPlane)
TimerArm(c3, prevPlane) ==
    [timer EXCEPT !.running = TRUE,
                  !.period = U32(c3.bitZeroPeriod * Pow2(prevPlane))]

\* What _PM_timerStop can return in the current state.
Measured == IF timer.elapsed = 0 THEN Elapsed ELSE {timer.elapsed}

PM_row_handler ==
    /\ timer.running
    /\ fg.pc # "crashed"
    /\ obs.isr < MaxIsr
    /\ \E elapsed \in Measured :
        LET c3 == RowHandlerCore(core, elapsed)
        IN /\ core' = c3
           /\ hw' = RowHandlerHw([hw EXCEPT !.log = <<>>],
                                 PeriodUpdate(core, core.plane, elapsed), c3)
           /\ timer' = TimerArm(c3, core.plane)
    /\ obs' = [Fault(obs, IF heap.screenData = "freed" THEN {"use_after_free"} ELSE {})
                 EXCEPT !.isr = @ + 1,
                        !.incs = IF Wraps(core) THEN @ + 1 ELSE @,
                        !.raced = @ \/ (Wraps(core) /\ fg.pc = "gfc")]
    /\ UNCHANGED <<build, heap, fg, ret>>

(* ------------------------------- _PM_stop ------------------------------- *)
\* _PM_pinLow on every RGB pin
RgbLow(h) == [h EXCEPT !.rgb = 0]

\* _PM_pinHigh(clockPin); _PM_pinLow(clockPin): one stage shifted in.
ClockPulse(h) ==
    [h EXCEPT !.sr = ShiftIn(h.sr, IF h.rgb = 0 THEN StageZero ELSE StageX),
              !.clk = 0]

RECURSIVE ClockOut(_, _)
ClockOut(h, n) == IF n = 0 THEN h ELSE ClockOut(ClockPulse(h), n - 1)

\* (variant of StopHw: one clock pulse short)
StopHw_short(h, c) ==
    Latch_clear(Latch_set(Ev(ClockOut(RgbLow(OE_set(h)), c.width - 1), "CLOCK_ZEROS")))

\* Everything _PM_stop does to the panel after halting the timer.
StopHw(h, c) ==
    Latch_clear(Latch_set(Ev(ClockOut(RgbLow(OE_set(h)), c.width), "CLOCK_ZEROS")))

\* What _PM_stop touches that was never given a value, or is NULL:
\* swapBuffers and the oe/latch registers are assigned by _PM_begin and
\* _PM_resume only; rgbPins is NULL after a failed _PM_init and after
\* _PM_free.
StopFaults(c) ==
    (IF ~c.regs THEN {"unassigned_read"} ELSE {})
        \cup (IF c.rgbPins = "null" /\ c.parallel * 6 > 0 THEN {"null_deref"} ELSE {})
        \cup (IF c.rgbPins = "unset" THEN {"unassigned_read"} ELSE {})

\* The body of _PM_stop after its wait.  With a fault the outcome is not
\* defined: the program dies (crash), or the writes miss the panel (a core
\* whose registers were never resolved) or land as intended.
StopBody(crash) ==
    /\ timer' = [timer EXCEPT !.running = FALSE]
    /\ hw' = IF crash \/ ~core.regs THEN hw
             ELSE StopHw([hw EXCEPT !.log = <<>>], core)

PM_stop_enter ==
    /\ fg.pc = "idle"
    /\ ret.begin = "OK"
    /\ fg' = [fg EXCEPT !.pc = "stop"]
    /\ obs' = obs
    /\ UNCHANGED <<core, build, heap, hw, timer, ret>>

\* while (core->swapBuffers); then the body.  An interrupt between the
\* loop's exit and _PM_timerStop leaves swapBuffers 0, so it commutes with
\* the exit and the two are one step here.
PM_stop_wait ==
    /\ fg.pc = "stop"
    /\ core.swapBuffers = 0
    /\ \E crash \in BOOLEAN :
        /\ crash => StopFaults(core) # {}
        /\ StopBody(crash)
        /\ fg' = [fg EXCEPT !.pc = IF crash THEN "crashed" ELSE "idle"]
        /\ obs' = [Fault(obs, StopFaults(core)) EXCEPT !.stopped = ~crash]
    /\ UNCHANGED <<core, build, heap, ret>>

(* ------------------------------ _PM_resume ------------------------------ *)
PM_resume ==
    /\ fg.pc = "idle"
    /\ ret.begin = "OK"
    /\ heap.screenData = "live"
    /\ core' = Resume(core)
    /\ timer' = ResumeTimer
    /\ obs' = ResumeObs(obs)
    /\ UNCHANGED <<build, heap, hw, fg, ret>>

(* ------------------------------- _PM_free ------------------------------- *)
\* _PM_FREE(p) guarded by if (p): the block's state afterwards, and the
\* fault when p does not point at a live block.
Release(block, ptr) ==
    IF ptr = "null" THEN block
    ELSE IF ptr = "ptr" /\ block = "live" THEN "freed"
    ELSE block

ReleaseFault(block, ptr) ==
    IF ptr = "null" THEN {}
    ELSE IF ptr = "unset" THEN {"wild_free"}
    ELSE IF block = "live" THEN {}
    ELSE {"double_free"}

FreeFaults ==
    ReleaseFault(heap.screenData, core.screenData)
        \cup ReleaseFault(heap.addr, core.addr)
        \cup ReleaseFault(heap.rgbPins, core.rgbPins)

PM_free_enter ==
    /\ fg.pc = "idle"
    /\ ret.init # "none"
    /\ fg' = [fg EXCEPT !.pc = "free"]
    /\ obs' = obs
    /\ UNCHANGED <<core, build, heap, hw, timer, ret>>

\* _PM_stop(core), then the three releases; only rgbPins is set to NULL.
PM_free_wait ==
    /\ fg.pc = "free"
    /\ core.swapBuffers = 0
    /\ \E crash \in BOOLEAN :
        /\ crash => (StopFaults(core) \cup FreeFaults) # {}
        /\ StopBody(crash)
        /\ heap' = IF crash THEN heap
                   ELSE [screenData |-> Release(heap.screenData, core.screenData),
                         addr |-> Release(heap.addr, core.addr),
                         rgbPins |-> Release(heap.rgbPins, core.rgbPins)]
        /\ core' = IF crash \/ core.rgbPins = "null" THEN core
                   ELSE [core EXCEPT !.rgbPins = "null"]
        /\ fg' = [fg EXCEPT !.pc = IF crash THEN "crashed" ELSE "idle"]
        /\ obs' = [Fault(obs, StopFaults(core) \cup FreeFaults)
                     EXCEPT !.stopped = ~crash /\ core.regs]
    /\ UNCHANGED <<build, ret>>

(* --------------------------- swap request ------------------------------- *)
\* The plotter's write swapBuffers = 1.
SwapRequest ==
    /\ fg.pc = "idle"
    /\ ret.begin = "OK"
    /\ core' = [core EXCEPT !.swapBuffers = 1]
    /\ obs' = obs
    /\ UNCHANGED <<build, heap, hw, timer, fg, ret>>

(* --------------------------- _PM_getFrameCount -------------------------- *)
\* count = core->frameCount;
PM_getFrameCount_read ==
    /\ fg.pc = "idle"
    /\ ret.begin = "OK"
    /\ fg' = [pc |-> "gfc", count |-> core.frameCount]
    /\ obs' = obs
    /\ UNCHANGED <<core, build, heap, hw, timer, ret>>

\* core->frameCount = 0;
ZeroFrameCount_skip(c) == c

ZeroFrameCount(c) == [c EXCEPT !.frameCount = 0]

\* core->frameCount = 0; return count;
PM_getFrameCount_write ==
    /\ fg.pc = "gfc"
    /\ core' = ZeroFrameCount(core)
    /\ fg' = [pc |-> "idle", count |-> 0]
    /\ obs' = [obs EXCEPT !.sum = @ + fg.count]
    /\ UNCHANGED <<build, heap, hw, timer, ret>>

Next ==
    \/ PM_init
    \/ PM_begin
    \/ PM_row_handler
    \/ PM_stop_enter
    \/ PM_stop_wait
    \/ PM_resume
    \/ PM_free_enter
    \/ PM_free_wait
    \/ SwapRequest
    \/ PM_getFrameCount_read
    \/ PM_getFrameCount_write

Spec == Init /\ [][Next]_vars

(* ------------------- the plotter, double-buffered ----------------------- *)
\* The caller's drawing discipline: it draws into the buffer
\* 1 - activeBuffer, only while swapBuffers reads 0; with the frame
\* complete it writes swapBuffers = 1 and draws no more until it reads 0.
\* obs.drawing is the buffer that holds its unfinished frame (-1: none).
Plot_write ==
    /\ fg.pc = "idle"
    /\ ret.begin = "OK"
    /\ heap.screenData = "live"
    /\ core.doubleBuffer
    /\ core.swapBuffers = 0
    /\ obs' = [obs EXCEPT !.drawing = 1 - core.activeBuffer]
    /\ UNCHANGED <<core, build, heap, hw, timer, fg, ret>>

Plot_done ==
    /\ fg.pc = "idle"
    /\ ret.begin = "OK"
    /\ core.doubleBuffer
    /\ core.swapBuffers = 0
    /\ obs.drawing # -1
    /\ core' = [core EXCEPT !.swapBuffers = 1]
    /\ obs' = [obs EXCEPT !.drawing = -1]
    /\ UNCHANGED <<build, heap, hw, timer, fg, ret>>

\* The driver under a caller that requests swaps through the plotter only.
PlotNext ==
    \/ PM_init
    \/ PM_begin
    \/ PM_row_handler
    \/ PM_stop_enter
    \/ PM_stop_wait
    \/ PM_resume
    \/ Plot_write
    \/ Plot_done

PlotSpec == Init /\ [][PlotNext]_vars

(* --------------- _PM_begin over pin and panel configurations ------------ *)
\* RGB pin lists on one PORT: within one octet (0, 1, 2, 3), within the
\* low or the high half-word, across the two middle octets, and spread
\* over all four octets.
PlanRgbLists ==
    {<<0, 1, 2, 3, 4, 5>>, <<8, 9, 10, 11, 12, 13>>,
     <<16, 17, 18, 19, 20, 21>>, <<26, 27, 28, 29, 30, 31>>,
     <<6, 7, 8, 9, 10, 11>>, <<22, 23, 24, 25, 26, 27>>,
     <<14, 15, 16, 17, 18, 19>>, <<0, 8, 16, 24, 1, 9>>}
\* a clock pin in each octet of PORT 0
PlanClockPins == {7, 14, 23, 25}
PlanPlanes == 1 .. 6
\* panel widths whose chunk count fits uint8_t and widths beyond
PlanWidths == {64, 510, 511, 512}

\* The state _PM_init leaves when it returns PROTOMATTER_OK.
InitCore(bitWidth, bitDepth, rgbList, addrCount, clockPin, doubleBuffer) ==
    [CoreBlank(0) EXCEPT
        !.timer = TRUE, !.width = bitWidth, !.numPlanes = bitDepth,
        !.parallel = Len(rgbList) \div 6,
        !.numAddressLines = addrCount, !.clockPin = clockPin,
        !.doubleBuffer = doubleBuffer,
        !.rgbPins = "ptr", !.rgbList = rgbList,
        !.addr = "ptr", !.screenData = "null"]

PostInit(bitWidth, bitDepth, rgbList, addrCount, clockPin, doubleBuffer) ==
    /\ core = InitCore(bitWidth, bitDepth, rgbList, addrCount, clockPin,
                       doubleBuffer)
    /\ heap = [rgbPins |-> "live", addr |-> "live", screenData |-> "none"]
    /\ hw = [HwBlank EXCEPT !.sr = [i \in 1 .. bitWidth |-> StageX],
                            !.out = [i \in 1 .. bitWidth |-> StageX]]
    /\ timer = [running |-> FALSE, period |-> 0, elapsed |-> 0]
    /\ fg = [pc |-> "idle", count |-> 0]
    /\ ret = [init |-> "OK", begin |-> "none"]
    /\ obs = ObsBlank

\* Either the pins vary over a small panel, or the panel varies over one
\* pin list; every build variant in both.
PlanInit ==
    /\ \E t \in BOOLEAN, s32 \in BOOLEAN :
          build = [toggle |-> t, strict32 |-> s32, timerFreq |-> PM_timerFreq]
    /\ \/ \E rgbList \in PlanRgbLists, clockPin \in PlanClockPins,
              bitDepth \in PlanPlanes, bitWidth \in 1 .. 3,
              doubleBuffer \in BOOLEAN :
            PostInit(bitWidth, bitDepth, rgbList, 1, clockPin, doubleBuffer)
       \/ \E bitWidth \in PlanWidths, bitDepth \in {1, 4}, addrCount \in {0, 4},
              doubleBuffer \in BOOLEAN :
            PostInit(bitWidth, bitDepth, <<0, 1, 2, 3, 4, 5>>, addrCount, 7,
                     doubleBuffer)

PlanNext == PM_begin

PlanSpec == PlanInit /\ [][PlanNext]_vars

(* =============================== claims ================================= *)
Begun == ret.begin = "OK"
Period(c) == c.numRowPairs * c.numPlanes
CursorIndex(c) == c.row * c.numPlanes + c.plane
\* a step that is one invocation of _PM_row_handler
IsrStep == obs'.isr = obs.isr + 1
\* an invocation that rolls row over: the cursor is left at row 0, plane 0
FrameBoundaryStep == IsrStep /\ core'.row = 0 /\ core'.plane = 0
\* a step that is _PM_resume
ResumeStep ==
    /\ obs'.isr = 0
    /\ timer' = ResumeTimer
    /\ core'.row = core.numRowPairs - 1
    /\ core'.plane = core.numPlanes - 1
\* position of the first e in the log, 0 when it holds none
Pos(log, e) ==
    IF \E i \in 1 .. Len(log) : log[i] = e
    THEN CHOOSE i \in 1 .. Len(log) : log[i] = e /\ \A j \in 1 .. (i - 1) : log[j] # e
    ELSE 0

\* C1: from resume (or begin) on, the n-th invocation of row_handler leaves
\* the cursor at position (n - 1) mod (num_row_pairs * num_planes) of the
\* row-major order (0,0), (0,1), ..., (0,num_planes-1), (1,0), ...; before
\* the first invocation the cursor stands at the last position, so the
\* first invocation leaves it at row 0, plane 0.
C1_CursorCycle ==
    Begun =>
        /\ core.row < core.numRowPairs
        /\ core.plane < core.numPlanes
        /\ obs.isr = 0 => CursorIndex(core) = Period(core) - 1
        /\ obs.isr >= 1 => CursorIndex(core) = (obs.isr - 1) % Period(core)

\* a full cycle of four positions has gone by and the cursor is back at (0,0)
C1_Witness ==
    /\ Begun
    /\ Period(core) = 4
    /\ obs.isr = Period(core) + 1
    /\ core.row = 0
    /\ core.plane = 0

\* C2: double-buffered, an invocation of row_handler flips active_buffer
\* exactly when it rolls row over to 0 and finds swap_buffers set, and it
\* clears swap_buffers in that invocation; every other invocation leaves
\* both alone, so a request stays pending through the invocations before
\* the frame boundary and causes no second flip after it.
C2_SwapAtFrameBoundary ==
    [][(Begun /\ core.doubleBuffer /\ IsrStep) =>
          IF core'.row = 0 /\ core'.plane = 0 /\ core.swapBuffers = 1
          THEN core'.activeBuffer = 1 - core.activeBuffer /\ core'.swapBuffers = 0
          ELSE core'.activeBuffer = core.activeBuffer
               /\ core'.swapBuffers = core.swapBuffers]_vars

\* buffer 1 is on display after a request was served at a frame boundary
\* of a frame of more than one invocation
C2_Witness ==
    /\ Begun
    /\ core.doubleBuffer
    /\ Period(core) > 1
    /\ obs.isr > Period(core)
    /\ core.activeBuffer = 1
    /\ core.swapBuffers = 0
    /\ core.row = 0
    /\ core.plane = 0

C4_ShiftBeforeOELow ==
    Pos(hw.log, "SHIFT") > 0 =>
        /\ Pos(hw.log, "OE_HIGH") < Pos(hw.log, "LATCH_HIGH")
        /\ Pos(hw.log, "LATCH_HIGH") < Pos(hw.log, "SHIFT")
        /\ Pos(hw.log, "ADDR") > 0 =>
              /\ Pos(hw.log, "LATCH_HIGH") < Pos(hw.log, "ADDR")
              /\ Pos(hw.log, "ADDR") < Pos(hw.log, "SHIFT")
        /\ Pos(hw.log, "SHIFT") < Pos(hw.log, "OE_LOW")

\* C4 (amended): in every invocation of row_handler, OE is raised, then
\* the latch is pulsed, then the address lines change (if they do), then
\* the timer is armed and OE is lowered, and the new plane is shifted out
\* last, while output is enabled.
C4_ShiftAfterOELow ==
    Pos(hw.log, "SHIFT") > 0 =>
        /\ Pos(hw.log, "OE_HIGH") = 1
        /\ Pos(hw.log, "OE_HIGH") < Pos(hw.log, "LATCH_HIGH")
        /\ Pos(hw.log, "ADDR") > 0 =>
              /\ Pos(hw.log, "LATCH_HIGH") < Pos(hw.log, "ADDR")
              /\ Pos(hw.log, "ADDR") < Pos(hw.log, "OE_LOW")
        /\ Pos(hw.log, "LATCH_HIGH") < Pos(hw.log, "TIMER_START")
        /\ Pos(hw.log, "TIMER_START") < Pos(hw.log, "OE_LOW")
        /\ Pos(hw.log, "OE_LOW") < Pos(hw.log, "SHIFT")
        /\ Pos(hw.log, "SHIFT") = Len(hw.log)
        /\ hw.oe = 0

\* an invocation that changed the address lines
C4_Witness ==
    /\ Pos(hw.log, "SHIFT") > 0
    /\ Pos(hw.log, "ADDR") > 0
    /\ obs.isr >= 2

\* C5: from the second invocation after resume on, the timer runs for
\* bit_zero_period << p, p being the plane of the data the invocation
\* latched into the output drivers (the one the invocation before it
\* shifted out).
C5_PeriodOfDisplayedPlane ==
    (Begun /\ timer.running /\ obs.isr >= 2) =>
        \A i \in 1 .. Len(hw.out) :
            /\ hw.out[i].k = "data"
            /\ timer.period = core.bitZeroPeriod * Pow2(hw.out[i].plane)

\* plane 1 is on display for twice the base period
C5_Witness ==
    /\ Begun
    /\ timer.running
    /\ obs.isr >= 2
    /\ hw.out[1].plane = 1
    /\ timer.period = 2 * core.bitZeroPeriod

\* C6: once stop has returned on a begun core, and until resume is called:
\* OE is high, the RGB lines and the clock are low, the timer is halted,
\* every stage of the panel's shift register holds zero and the zeros have
\* been latched; no invocation of row_handler runs, and the cursor and the
\* panel's lines stay as they are.
StoppedPanel ==
    /\ hw.oe = 1
    /\ hw.rgb = 0
    /\ hw.clk = 0
    /\ hw.latch = 0
    /\ ~timer.running
    /\ Len(hw.sr) = core.width
    /\ \A i \in 1 .. Len(hw.sr) : hw.sr[i] = StageZero
    /\ \A i \in 1 .. Len(hw.out) : hw.out[i] = StageZero

C6_StoppedState ==
    /\ [](obs.stopped => StoppedPanel)
    /\ [][obs.stopped =>
             /\ ~IsrStep
             /\ obs'.stopped =>
                   /\ core'.row = core.row
                   /\ core'.plane = core.plane
                   /\ core'.prevRow = core.prevRow
                   /\ hw'.oe = hw.oe
                   /\ hw'.addr = hw.addr
                   /\ hw'.sr = hw.sr
                   /\ hw'.out = hw.out]_vars

\* stop has returned after the panel had shown data
C6_Witness ==
    /\ Begun
    /\ obs.stopped
    /\ obs.isr >= 2
    /\ fg.pc = "idle"
    /\ heap.screenData = "live"

\* C7 (as claimed): the wait of stop always ends. On a begun core, while
\* stop (called directly or by free) waits on swap_buffers, either the flag
\* is clear already or the timer is running, so that row_handler reaches a
\* frame boundary and clears it.
C7_StopWaitEnds ==
    (Begun /\ fg.pc \in {"stop", "free"}) =>
        (core.swapBuffers = 0 \/ timer.running)

\* C8 (as claimed): after init returned OK, begin returns OK with
\* screen_data non-null, or an error with every allocation rolled back, so
\* that free has nothing to release.
C8_ErrorRolledBack ==
    ret.init = "OK" =>
        /\ ret.begin = "OK" => core.screenData # "null"
        /\ ret.begin \in {"ERR_PINS", "ERR_MALLOC"} =>
              \A b \in DOMAIN heap : heap[b] # "live"

\* C8 (amended): after init returned OK, begin returns OK with screen_data
\* non-null and the framebuffer allocated, or an error with screen_data
\* null, no framebuffer allocated and the timer not started, while the RGB
\* pin list and the address-pin array of init stay allocated and owned by
\* the core until free releases them.
C8_ErrorKeepsPinLists ==
    ret.init = "OK" =>
        /\ ret.begin = "OK" =>
              /\ core.screenData = "ptr"
              /\ heap.screenData # "none"
        /\ ret.begin \in {"ERR_PINS", "ERR_MALLOC"} =>
              /\ core.screenData = "null"
              /\ heap.screenData = "none"
              /\ ~timer.running
              /\ core.addr = "ptr"
              /\ core.rgbPins = "ptr" => heap.rgbPins = "live" /\ heap.addr = "live"
              /\ core.rgbPins = "null" => heap.rgbPins = "freed" /\ heap.addr = "freed"

\* begin has failed on the pins and the lists of init are still allocated
C8_Witness ==
    /\ ret.init = "OK"
    /\ ret.begin = "ERR_PINS"
    /\ core.rgbPins = "ptr"
    /\ heap.rgbPins = "live"
    /\ heap.addr = "live"

\* C9 (as claimed): free on an instance that begin has not brought up
\* reads no field that was never assigned, dereferences no null or
\* unassigned pointer, and its wait ends.
C9_FreeWellDefined ==
    (ret.init # "none" /\ ~Begun) =>
        /\ obs.fault = {}
        /\ fg.pc # "crashed"
        /\ fg.pc = "free" => core.swapBuffers = 0

\* C10 (as claimed): no increment is lost: the values get_frame_count has
\* returned since resume plus the current frame_count add up to the number
\* of increments row_handler made since resume.
C10_NoIncrementLost ==
    Begun => obs.sum + core.frameCount = obs.incs

\* C10 (amended): get_frame_count reads frame_count and zeroes it in two
\* steps; the values returned since resume plus the current frame_count
\* never exceed the number of increments since resume, and equal it as
\* long as no frame-completing invocation of row_handler fell between the
\* read and the zeroing of a call.
C10_LostOnlyInWindow ==
    Begun =>
        /\ obs.sum + core.frameCount <= obs.incs
        /\ ~obs.raced => obs.sum + core.frameCount = obs.incs
        /\ fg.pc = "idle" /\ obs.raced => obs.sum + core.frameCount < obs.incs

\* a call has returned and an increment made inside its window is gone
C10_Witness ==
    /\ Begun
    /\ fg.pc = "idle"
    /\ obs.raced
    /\ obs.sum + core.frameCount < obs.incs
    /\ obs.sum > 0

\* C11 (as claimed): one call of get_frame_count leaves at most one
\* increment uncounted.  Between the call's read and its zeroing, the
\* increments that will be neither returned nor left in frame_count are
\* those made since the read: frame_count minus the value read.
C11_AtMostOneLost ==
    (Begun /\ fg.pc = "gfc") => core.frameCount - fg.count <= 1

\* C12: after begin, active_buffer changes only in an invocation of
\* row_handler that rolls row over to 0 and found swap_buffers set; stop,
\* resume, get_frame_count and free leave it as it is.
C12_ActiveBufferOnlyAtSwap ==
    [][(Begun /\ core'.activeBuffer # core.activeBuffer) =>
          (FrameBoundaryStep /\ core.swapBuffers = 1)]_vars

\* resume was called with buffer 1 in front, and buffer 1 is still in front
C12_Witness ==
    /\ Begun
    /\ core.activeBuffer = 1
    /\ obs.isr = 0
    /\ timer.running
    /\ fg.pc = "idle"

\* C13: double-buffered, with a plotter that draws into 1 - active_buffer
\* only while swap_buffers is 0 and sets swap_buffers when its frame is
\* complete, no invocation of row_handler shifts out elements of the buffer
\* that holds the plotter's unfinished frame.
C13_NoTearing ==
    [][(Begun /\ core.doubleBuffer /\ IsrStep /\ obs.drawing # -1) =>
          \A i \in 1 .. Len(hw'.sr) :
              /\ hw'.sr[i].k = "data"
              /\ hw'.sr[i].buf # obs.drawing]_vars

\* buffer 1 went to the front at a frame boundary, the plotter is drawing
\* its next frame into buffer 0, and the panel is being fed from buffer 1
C13_Witness ==
    /\ Begun
    /\ core.doubleBuffer
    /\ core.activeBuffer = 1
    /\ obs.drawing = 0
    /\ obs.isr >= 2
    /\ hw.sr[1] = StageData(1, core.row, core.plane, 1)

\* C14: as long as get_frame_count has not taken anything away since
\* resume (nothing returned, no call under way, none that raced with an
\* increment), frame_count is the number of invocations since resume that
\* rolled row over to 0: one for the first invocation and one more for
\* every full cycle of num_row_pairs * num_planes invocations after it.
C14_FrameCountIsWraps ==
    (Begun /\ obs.sum = 0 /\ ~obs.raced /\ fg.pc # "gfc") =>
        /\ core.frameCount = obs.incs
        /\ core.frameCount =
              IF obs.isr = 0 THEN 0 ELSE ((obs.isr - 1) \div Period(core)) + 1

\* two full cycles of two invocations each after the first roll-over
C14_Witness ==
    /\ Begun
    /\ obs.sum = 0
    /\ ~obs.raced
    /\ fg.pc = "idle"
    /\ Period(core) = 2
    /\ obs.isr = 5
    /\ core.frameCount = 3

\* one of the 6 * parallel RGB pins has another output register than the
\* clock pin
OffPort(c) ==
    \E i \in 1 .. (6 * c.parallel) :
        PM_portOutRegister(c.rgbList[i]) # PM_portOutRegister(c.clockPin)

\* C17: on a core whose init returned OK, begin returns ERR_PINS exactly
\* when some RGB pin is on another PORT than the clock pin; then no
\* framebuffer is allocated, no pin is configured, the timer is not
\* started and no invocation of row_handler follows.  (The core of the
\* first part is one that free has not been called on: its pin list is
\* still allocated.)
C17_ErrPins ==
    (ret.init = "OK" /\ ret.begin # "none") =>
        /\ heap.rgbPins = "live" => (ret.begin = "ERR_PINS" <=> OffPort(core))
        /\ ret.begin = "ERR_PINS" =>
              /\ OffPort(core)
              /\ heap.screenData = "none"
              /\ core.screenData = "null"
              /\ ~core.regs
              /\ hw.log = <<>>
              /\ hw.addr = {}
              /\ \A i \in 1 .. Len(hw.sr) : hw.sr[i] = StageX
              /\ ~timer.running
              /\ obs.isr = 0

\* begin refused a list whose first pins share the clock's PORT and whose
\* last pin does not
C17_Witness ==
    /\ ret.init = "OK"
    /\ ret.begin = "ERR_PINS"
    /\ PM_portOutRegister(core.rgbList[1]) = PM_portOutRegister(core.clockPin)
    /\ PM_portOutRegister(core.rgbList[6]) # PM_portOutRegister(core.clockPin)

\* the estimate row_handler computes from the old one and a measurement
Ema(c, elapsed) ==
    LET b == ((7 * c.bitZeroPeriod) + elapsed) \div 8
    IN IF b < c.minPeriod THEN c.minPeriod ELSE b

\* C20: after begin, bit_zero_period is changed by row_handler only, in
\* invocations that find the plane cursor at 1 or num_planes = 1; in each
\* of those it becomes max(min_period, (7 * old + elapsed) div 8); stop,
\* resume and get_frame_count leave it as it is.
C20_PeriodEstimate ==
    [][Begun =>
          /\ (IsrStep /\ (core.plane = 1 \/ core.numPlanes = 1)) =>
                \E elapsed \in Elapsed : core'.bitZeroPeriod = Ema(core, elapsed)
          /\ ~(IsrStep /\ (core.plane = 1 \/ core.numPlanes = 1)) =>
                core'.bitZeroPeriod = core.bitZeroPeriod]_vars

\* two planes: the estimate has moved off its initial guess, and the
\* invocation that found plane 1 has just run
C20_Witness ==
    /\ Begun
    /\ core.numPlanes = 2
    /\ core.plane = 0
    /\ obs.isr >= 3
    /\ core.bitZeroPeriod # core.width * 5
    /\ core.bitZeroPeriod > core.minPeriod

\* the bits of the PORT that decide the element size: the RGB pins', and
\* the clock pin's where a toggle register exists
PlanBits(c) ==
    {c.rgbList[i] % 32 : i \in 1 .. (6 * c.parallel)}
        \cup (IF build.toggle THEN {c.clockPin % 32} ELSE {})
\* all the bits lie in the k-th aligned element of w bytes
InElement(bits, w, k) == \A b \in bits : b \div (8 * w) = k

\* C15: with all RGB pins and the clock on one PORT, begin makes
\* element_width the smallest of 1, 2, 4 such that the RGB bits (and the
\* clock bit where a toggle register exists) lie in one aligned element of
\* that width, port_offset the index of that element (0 for width 4), and
\* rgb_mask[i] the pin's bit moved down by port_offset * 8 * element_width
\* places: one bit, within the element.
C15_ElementPlan ==
    ret.begin = "OK" =>
        LET bits == PlanBits(core)
            w == core.bytesPerElement
            k == core.portOffset
        IN /\ w \in {1, 2, 4}
           /\ k \in 0 .. ((4 \div w) - 1)
           /\ InElement(bits, w, k)
           /\ \A v \in {1, 2} : v < w => ~\E j \in 0 .. 3 : InElement(bits, v, j)
           /\ Len(core.rgbMask) = 6 * core.parallel
           /\ \A i \in 1 .. (6 * core.parallel) :
                 /\ core.rgbMask[i] = {(core.rgbList[i] % 32) - (k * 8 * w)}
                 /\ \A b \in core.rgbMask[i] : b \in 0 .. ((8 * w) - 1)

\* RGB pins across octets 1 and 2, which no aligned half-word holds: 4 bytes
C15_Witness ==
    /\ ret.begin = "OK"
    /\ {b \div 8 : b \in PlanBits(core)} = {1, 2}
    /\ core.bytesPerElement = 4
    /\ core.portOffset = 0

CeilDiv(a, b) == (a + (b - 1)) \div b

\* C16 (as claimed): buffer_size is columns * num_row_pairs * num_planes *
\* element_width with columns = ceil(width / chunk_size) * chunk_size and
\* num_row_pairs = 2^addr_count, whatever the width.
C16_BufferSize ==
    ret.begin # "none" =>
        core.bufferSize =
            (CeilDiv(core.width, PM_chunkSize) * PM_chunkSize)
                * (2 ^ core.numAddressLines) * core.numPlanes * core.bytesPerElement

\* a step from table entry a to entry a + 1 (inputs a - 1 and a)
Step(t, a) == t[a + 1] - t[a]

\* C18 (as claimed): for 1 to 6 planes both tables go up by 0 or 1 from
\* each input to the next.
C18_StepsAtMostOne ==
    (ret.begin = "OK" /\ core.numPlanes \in 1 .. 6) =>
        /\ \A a \in 1 .. 31 : Step(core.remap_rb, a) \in {0, 1}
        /\ \A a \in 1 .. 63 : Step(core.remap_g, a) \in {0, 1}

\* C18 (amended): for 1 to 5 planes both tables go up by 0 or 1 from each
\* input to the next; for 6 planes remap_g goes up by exactly 1 and
\* remap_rb, which spreads 32 inputs over 0..63, by 2, and by 3 from input
\* 15 to input 16.
C18_StepsByDepth ==
    (ret.begin = "OK" /\ core.numPlanes \in 1 .. 6) =>
        /\ Len(core.remap_rb) = 32
        /\ Len(core.remap_g) = 64
        /\ core.numPlanes <= 5 =>
              /\ \A a \in 1 .. 31 : Step(core.remap_rb, a) \in {0, 1}
              /\ \A a \in 1 .. 63 : Step(core.remap_g, a) \in {0, 1}
        /\ core.numPlanes = 6 =>
              /\ \A a \in 1 .. 31 :
                    Step(core.remap_rb, a) = IF a = 16 THEN 3 ELSE 2
              /\ \A a \in 1 .. 63 : Step(core.remap_g, a) = 1

\* the tables of a 6-plane core, red/blue stepping from 30 to 33
C18_Witness ==
    /\ ret.begin = "OK"
    /\ core.numPlanes = 6
    /\ core.remap_rb[16] = 30
    /\ core.remap_rb[17] = 33

\* C19 (as claimed): after begin returned OK every byte of the framebuffer
\* (both buffers) belongs to an element holding the initial fill: zero
\* without a toggle register, and with one the clock bit at its place in
\* the element, for every element width, strict 32-bit I/O or not.
C19_InitialFill ==
    ret.begin = "OK" =>
        /\ core.fill.bytes =
              core.bufferSize * (IF core.doubleBuffer THEN 2 ELSE 1)
        /\ core.fill.value =
              IF build.toggle
              THEN {(core.clockPin % 32)
                        - (core.portOffset * 8 * core.bytesPerElement)}
              ELSE {}


(* ------------- the refresh on wide panels and fast timers --------------- *)
\* widths whose chunk count fits uint8_t and one beyond (257 chunks)
RunWidths == {3, 513}
\* the timer clock of the facade and a faster one, in ticks per second
RunTimerFreqs == {PM_timerFreq, 48000}
RunPlanes == {1, 3}

RunInit ==
    /\ \E t \in BOOLEAN, f \in RunTimerFreqs :
          build = [toggle |-> t, strict32 |-> FALSE, timerFreq |-> f]
    /\ \E bitWidth \in RunWidths, bitDepth \in RunPlanes, addrCount \in {0, 1},
          doubleBuffer \in BOOLEAN :
            PostInit(bitWidth, bitDepth, <<0, 1, 2, 3, 4, 5>>, addrCount, 7,
                     doubleBuffer)

RunNext ==
    \/ PM_begin
    \/ PM_row_handler
    \/ SwapRequest

RunSpec == RunInit /\ [][RunNext]_vars

(* ---------------- the state _PM_begin leaves on success ----------------- *)
\* The panel after _PM_begin on a core that _PM_init left as c0.
BeginHw(c0) ==
    BeginPins([HwBlank EXCEPT !.sr = [i \in 1 .. c0.width |-> StageX],
                              !.out = [i \in 1 .. c0.width |-> StageX]], c0)

\* A running instance with core c, panel h and timer t.
PostBegin(c, h, t) ==
    /\ core = c
    /\ hw = h
    /\ heap = [rgbPins |-> "live", addr |-> "live", screenData |-> "live"]
    /\ timer = t
    /\ fg = [pc |-> "idle", count |-> 0]
    /\ ret = [init |-> "OK", begin |-> "OK"]
    /\ obs = ObsBlank

(* ------------- the address update over every (prevRow, row) ------------- *)
AddrLineCounts == {1, 2}

\* A begun core whose cursor stands at any (row, plane) with any prevRow,
\* the address lines showing prevRow.
AddrInit ==
    \E t \in BOOLEAN, n \in AddrLineCounts, plane \in 0 .. 1 :
      \E row \in 0 .. Pow2(n) - 1, prevRow \in 0 .. Pow2(n) - 1 :
        LET b == [toggle |-> t, strict32 |-> FALSE, timerFreq |-> PM_timerFreq]
            c0 == InitCore(1, 2, <<0, 1, 2, 3, 4, 5>>, n, 12, FALSE)
        IN /\ build = b
           /\ PostBegin([BeginCore(c0, b) EXCEPT !.row = row, !.plane = plane,
                                                 !.prevRow = prevRow],
                        [BeginHw(c0) EXCEPT !.addr = RowBits(prevRow, n)],
                        ResumeTimer)

AddrNext == PM_row_handler

AddrSpec == AddrInit /\ [][AddrNext]_vars

(* ------------- the period estimate under a constant load --------------- *)
\* measurements held constant, and how far from them the estimate starts
SteadyElapsed == {20, 21, 24}
SteadyStart == (0 - 11) .. 4
\* timer clocks: min_period 4 and 16 on a panel of one row pair, one plane
SteadyTimerFreqs == {PM_timerFreq, 4000}

\* A begun one-plane core (every invocation updates the estimate) with any
\* estimate near the measurement e.
SteadyInit ==
    \E t \in BOOLEAN, f \in SteadyTimerFreqs, e \in SteadyElapsed, d \in SteadyStart :
        LET b == [toggle |-> t, strict32 |-> FALSE, timerFreq |-> f]
            c0 == InitCore(1, 1, <<0, 1, 2, 3, 4, 5>>, 0, 12, FALSE)
        IN /\ build = b
           /\ PostBegin([BeginCore(c0, b) EXCEPT !.bitZeroPeriod = e + d],
                        BeginHw(c0), [ResumeTimer EXCEPT !.elapsed = e])

SteadyNext == PM_row_handler

SteadySpec == SteadyInit /\ [][SteadyNext]_vars
\* the timer interrupt is served whenever the timer runs
SteadyFairSpec == SteadySpec /\ WF_vars(PM_row_handler)

(* ------------------- the shifters at the PORT registers ----------------- *)
\* hw.port is the set of PORT bits that are high.  A narrow access at
\* element offset portOffset reaches the PORT bits from off upward.
Up(mask, k) == {b + k : b \in mask}
WriteToggle(port, v) == SymDiff(port, Trunc(v, 32))
WriteSet(port, v) == port \cup Trunc(v, 32)
WriteClear(port, v) == port \ v

\* (variant of Pew: the non-toggle build leaves the clear of RGB and clock
\* out)
Pew_noClear(port, data, c, b, w, off) ==
    IF b.toggle
    THEN IF b.strict32
         THEN WriteToggle(WriteToggle(port, Up(data, off)), c.clockMask)
         ELSE WriteToggle(WriteToggle(port, Up(data, off)),
                          Up(Trunc(c.clockMask, w), off))
    ELSE WriteSet(WriteSet(port, Up(data, off)), c.clockMask)

\* PEW, one column: data is the element read, w the width in bits of the
\* narrow access, off the PORT bit the element starts at (the byte or word
\* the narrow pointer addresses, or the shift of the 32-bit-only build).
Pew(port, data, c, b, w, off) ==
    IF b.toggle
    THEN IF b.strict32
         THEN WriteToggle(WriteToggle(port, Up(data, off)), c.clockMask)
         ELSE WriteToggle(WriteToggle(port, Up(data, off)),
                          Up(Trunc(c.clockMask, w), off))
    ELSE WriteClear(WriteSet(WriteSet(port, Up(data, off)), c.clockMask),
                    c.rgbAndClockMask)

\* while (chunks--) { PEW_UNROLL } over the elements of the slice
RECURSIVE PewLoop(_, _, _, _, _, _)
PewLoop(port, slice, c, b, w, off) ==
    IF slice = <<>> THEN port
    ELSE PewLoop(Pew(port, Head(slice), c, b, w, off), Tail(slice), c, b, w, off)

blast_byte(port, c, b, slice) ==
    LET off == c.portOffset * 8
        p == PewLoop(port, slice, c, b, 8, off)
    IN IF ~b.toggle THEN p
       ELSE IF b.strict32 THEN WriteClear(p, c.rgbAndClockMask)
       ELSE WriteClear(p, Up(Trunc(c.rgbAndClockMask, 8), off))

blast_word(port, c, b, slice) ==
    LET off == c.portOffset * 16
        p == PewLoop(port, slice, c, b, 16, off)
    IN IF ~b.toggle THEN p
       ELSE IF b.strict32 THEN WriteClear(p, c.rgbAndClockMask)
       ELSE WriteClear(p, Up(Trunc(c.rgbAndClockMask, 16), off))

blast_long(port, c, b, slice) ==
    LET p == PewLoop(port, slice, c, b, 32, 0)
    IN IF ~b.toggle THEN p ELSE WriteClear(p, c.rgbAndClockMask)

\* The PORT bits of the RGB pins and of the clock pin.
RgbBits(c) == {c.rgbList[i] % 32 : i \in 1 .. (6 * c.parallel)}
ClockBit(c) == c.clockPin % 32

\* Element values a framebuffer may hold: nothing, every bit, the RGB bits,
\* the clock bit (the fill of the toggle builds), RGB and clock together.
Elements(c) ==
    LET w == 8 * c.bytesPerElement
        off == w * c.portOffset
        narrow(bits) == {x - off : x \in {y \in bits : y >= off /\ y < off + w}}
    IN {{}, 0 .. (w - 1), narrow(RgbBits(c)), narrow({ClockBit(c)}),
        narrow(RgbBits(c) \cup {ClockBit(c)})}

\* the slices of n elements
Slices(c, n) == [1 .. n -> Elements(c)]

\* panel widths: one chunk, and 256 chunks (0 in uint8_t)
ShiftWidths == {1, 511}

\* A begun core on every pin layout and build.  The 32-bit-only build
\* without a toggle register is left out where the element is a long:
\* PEW then names `clear`, which blast_long does not declare.
ShiftInit ==
    \E t \in BOOLEAN, s32 \in BOOLEAN, rgbList \in PlanRgbLists,
       clockPin \in PlanClockPins, bitWidth \in ShiftWidths :
        LET b == [toggle |-> t, strict32 |-> s32, timerFreq |-> PM_timerFreq]
            c0 == InitCore(bitWidth, 1, rgbList, 0, clockPin, FALSE)
        IN /\ build = b
           /\ ~(~t /\ s32 /\ BeginCore(c0, b).bytesPerElement = 4)
           /\ PostBegin(BeginCore(c0, b), BeginHw(c0), ResumeTimer)

\* One call of the shifter the row handler picks for the element width
\* (core.c:604-610), on any framebuffer contents.
Shift(bpe, port1) ==
    /\ ret.begin = "OK"
    /\ core.bytesPerElement = bpe
    /\ hw' = [hw EXCEPT !.port = port1,
                        !.src = [offset |-> 0,
                                 elements |-> Chunks(core.width) * PM_chunkSize]]
    /\ UNCHANGED <<core, build, heap, timer, fg, ret, obs>>

Shift_byte ==
    \E slice \in Slices(core, Chunks(core.width) * PM_chunkSize) :
        Shift(1, blast_byte(hw.port, core, build, slice))

Shift_word ==
    \E slice \in Slices(core, Chunks(core.width) * PM_chunkSize) :
        Shift(2, blast_word(hw.port, core, build, slice))

Shift_long ==
    \E slice \in Slices(core, Chunks(core.width) * PM_chunkSize) :
        Shift(4, blast_long(hw.port, core, build, slice))

ShiftNext ==
    \/ Shift_byte
    \/ Shift_word
    \/ Shift_long

ShiftSpec == ShiftInit /\ [][ShiftNext]_vars

(* ------------------------- claims C21 .. C30 ---------------------------- *)
\* the window the estimate settles in under the constant measurement
Settled ==
    /\ core.bitZeroPeriod <= timer.elapsed
    /\ core.bitZeroPeriod >= timer.elapsed - 7
    /\ core.bitZeroPeriod >= core.minPeriod

C22_ReleasedOnce ==
    Begun => "double_free" \notin obs.fault

\* C23: when init has returned ERR_MALLOC the core owns no block (the three
\* pointers are null and no block is live), and a begin that follows
\* returns ERR_MALLOC, allocates nothing and leaves the timer stopped with
\* no interrupt ever taken.
C23_InitMallocFailure ==
    ret.init = "ERR_MALLOC" =>
        /\ core.rgbPins = "null" /\ core.addr = "null" /\ core.screenData = "null"
        /\ \A blk \in DOMAIN heap : heap[blk] # "live"
        /\ ret.begin \in {"none", "ERR_MALLOC"}
        /\ ~timer.running
        /\ obs.isr = 0

C23_Witness ==
    /\ ret.init = "ERR_MALLOC"
    /\ heap.rgbPins = "freed"
    /\ ret.begin = "ERR_MALLOC"

\* C24 (as claimed): the slice of every invocation starts at byte offset
\* ((active_buffer * num_row_pairs + row) * num_planes + plane) * columns *
\* element_width, columns being the width rounded up to whole chunks and the
\* buffer term 0 when single-buffered, and the elements the shifter
\* consumes end inside the buffer_size * (1 + double_buffer) bytes.
C24_SliceInBounds ==
    (Begun /\ obs.isr >= 1) =>
        LET columns == CeilDiv(core.width, PM_chunkSize) * PM_chunkSize
            buffers == IF core.doubleBuffer THEN 2 ELSE 1
        IN /\ hw.src.offset =
                ((SrcBuffer(core) * core.numRowPairs + core.row) * core.numPlanes
                     + core.plane) * columns * core.bytesPerElement
           /\ hw.src.offset + hw.src.elements * core.bytesPerElement
                <= core.bufferSize * buffers

\* C25 (as claimed): from the first interrupt after begin on, the timer is
\* armed with a bit_zero_period that is at least min_period.
C25_FloorFromFirstInterrupt ==
    (Begun /\ obs.isr >= 1 /\ timer.running) =>
        /\ core.bitZeroPeriod >= core.minPeriod
        /\ \E p \in 0 .. core.numPlanes - 1 :
              timer.period = core.bitZeroPeriod * Pow2(p)

\* C26 (as claimed): with no get_frame_count call since resume, frame_count
\* after n interrupts is floor(n / (num_row_pairs * num_planes)).
C26_CountsCompletedFrames ==
    (Begun /\ obs.sum = 0 /\ ~obs.raced /\ fg.pc # "gfc") =>
        core.frameCount = obs.isr \div Period(core)

\* C27: an invocation entered with plane 0 and the address lines showing
\* prev_row leaves the lines showing row, whichever of the two updates the
\* build uses, and leaves prev_row = row; an invocation entered with
\* another plane changes neither the lines nor prev_row.
C27_AddrUpdate ==
    [][IsrStep =>
          IF core.plane = 0
          THEN /\ hw.addr = RowBits(core.prevRow, core.numAddressLines)
                     => hw'.addr = RowBits(core.row, core.numAddressLines)
               /\ core'.prevRow = core.row
          ELSE /\ hw'.addr = hw.addr
               /\ core'.prevRow = core.prevRow]_vars

\* the first invocation has run the toggle update and the two lines show
\* row 3
C27_Witness ==
    /\ core.singleAddrPort
    /\ obs.isr = 1
    /\ core.prevRow = 3
    /\ hw.addr = {0, 1}
    /\ "ADDR" \in {hw.log[i] : i \in DOMAIN hw.log}

\* C28: after a shifter has returned, every RGB line and the clock line of
\* the PORT are low, whatever elements it shifted.
C28_LowOnReturn ==
    Begun => hw.port \cap (RgbBits(core) \cup {ClockBit(core)}) = {}

\* a toggle build has shifted a slice whose elements differ in bits that
\* are neither RGB nor clock: those stay high, RGB and clock are low
C28_Witness ==
    /\ build.toggle
    /\ hw.src.elements = PM_chunkSize
    /\ hw.port # {}
    /\ hw.port \cap (RgbBits(core) \cup {ClockBit(core)}) = {}

\* C29 (as claimed): the levels of the row-address lines encode prev_row at
\* every moment of a begun core, across stop and resume too.
C29_LinesEncodePrevRow ==
    Begun => hw.addr = RowBits(core.prevRow, core.numAddressLines)

\* C30 (as claimed): a swap request is never dropped: swap_buffers goes
\* from 1 back to 0 only in a step that flips active_buffer.
C30_RequestServed ==
    [][(Begun /\ core.swapBuffers = 1 /\ core'.swapBuffers = 0)
          => core'.activeBuffer = 1 - core.activeBuffer]_vars

====
